---- MODULE Spec2Model ----
(***************************************************************************)
(* Kaspar Daugaard's SPSC ring buffer (jodyhagins/DaugaardRingBuffer).     *)
(*                                                                         *)
(* Two revisions of the class are in the repository:                       *)
(*   TRingBuffer  (unnamed/part_000): Initialize checks the cache line,    *)
(*                the buffer alignment and the size; Align and Prepare*    *)
(*                carry assert()s (Debug is the default build type);       *)
(*   RingBuffer   (src/daugaard/ring_buffer.hpp): Initialize checks the    *)
(*                cache line only; no assert()s.                           *)
(* Everything else is the same code, modelled once.                        *)
(***************************************************************************)
EXTENDS Integers, Sequences, FiniteSets, TLC

VARIABLES
    app,        \* the build and the workload of this run (never changes)
    m_Writer,   \* LocalState of the producer
    m_Reader,   \* LocalState of the consumer
    m_WriterShared, \* SharedState.pos of the producer
    m_ReaderShared, \* SharedState.pos of the consumer
    wpc,        \* where the producer thread is
    rpc,        \* where the consumer thread is
    wcall,      \* the locals of the PrepareWrite in progress / just returned
    rcall,      \* the locals of the PrepareRead in progress / just returned
    mem,        \* the bytes of the storage region, by offset
    queue,      \* records the producer has started and the consumer has not
    lead,       \* records the consumer has started and the producer has not
    wopen,      \* offsets reserved by PrepareWrite, not yet published
    pubd,       \* offsets published by FinishWrite, not yet released
    ropen,      \* offsets handed out by PrepareRead, not yet released
    last,       \* the life-cycle call that has just returned, if any
    hist,       \* the calls since Initialize, while they follow app.script
    total       \* the four running totals as they would be without overflow

vars == <<app, m_Writer, m_Reader, m_WriterShared, m_ReaderShared, wpc, rpc,
          wcall, rcall, mem, queue, lead, wopen, pubd, ropen, last, hist,
          total>>

ring == <<m_Writer, m_Reader, m_WriterShared, m_ReaderShared>>

----------------------------------------------------------------------------
(* Bounds of the model. *)

\* bits of size_t in the model (64 in the builds)
Width == 6
\* largest buffer size handed to Initialize
MaxN == 4
\* a side stops issuing requests once its base has reached this
MaxTotal == 8
\* how many records one side may be ahead of the other
MaxLead == 1
\* the same, when every Prepare is followed by its Finish
StrictLead == 2
\* the same as MaxN and MaxTotal, in the life-cycle runs
LifeMaxN == 2
LifeTotal == 2
\* bits of size_t in the runs that take the counters through their overflow
OverflowBits == 4
\* how far past 2^OverflowBits a base may go in them
OverflowPast == 4
\* largest buffer size and base limit in the half-capacity runs
HalfMaxN == 8
HalfTotal == 8

(* Program constants. *)

CACHE_LINE_SIZE == 64

Impls == {"TRingBuffer", "RingBuffer"}
Aligns == {1, 2, 4}
\* nullptr
NullPtr == 0

----------------------------------------------------------------------------
(* size_t and ptrdiff_t arithmetic. *)

Mod == 2 ^ app.bits

Trunc(x) == x % Mod

\* faulty variant: the value is taken as it is, unsigned
SignedNot(x) == Trunc(x)

\* static_cast<ptrdiff_t>
Signed(x) == IF Trunc(x) >= Mod \div 2 THEN Trunc(x) - Mod ELSE Trunc(x)

RECURSIVE BitAndN(_, _, _)
BitAndN(x, y, n) ==
    IF n = 0 THEN 0
    ELSE (IF x % 2 = 1 /\ y % 2 = 1 THEN 1 ELSE 0)
         + 2 * BitAndN(x \div 2, y \div 2, n - 1)

BitAnd(x, y) == BitAndN(Trunc(x), Trunc(y), app.bits)

\* ~x
BitNot(x) == Mod - 1 - Trunc(x)

is_power_of_two(t) == t > 0 /\ BitAnd(t, t - 1) = 0

\* faulty variant: the position is handed back unaligned
AlignNot(pos, alignment) == Trunc(pos)

Align(pos, alignment) == BitAnd(pos + alignment - 1, BitNot(alignment - 1))

\* faulty variant: the window is always taken to be the whole buffer
MinRight(a, b) == b

\* faulty variant: the window is not capped at the end of the buffer
MinLeft(a, b) == a

Min(a, b) == IF a < b THEN a ELSE b

----------------------------------------------------------------------------
LocalState == [buffer |-> NullPtr, pos |-> 0, end |-> 0, base |-> 0, size |-> 0]

NoCall == [pos |-> 0, end |-> 0, size |-> 0, align |-> 1, full |-> FALSE]
NoLast == [op |-> "none"]
NoTotal == [wbase |-> 0, rbase |-> 0, ws |-> 0, rs |-> 0]

(* A byte of the region holds <<r, j>>: byte j of the record that is r       *)
(* records after the one the consumer started last (r = -1: of that record  *)
(* itself), or Junk: never written, or of a record the consumer has left.   *)
Junk == <<-2, 0>>
Byte(r, j) == IF r < -1 THEN Junk ELSE <<r, j>>

\* the consumer starts its next record
Age(b) == Byte(b[1] - 1, b[2])

\* the record the producer is on, counted from the consumer's
WriterAhead == Len(queue) - Len(lead) - 1

Extent(c) == {i \in 0 .. (c.pos + c.size - 1) : i >= c.pos}

Quiesced == wpc = "idle" /\ rpc = "idle"
Running == wpc # "abort" /\ rpc # "abort"

\* hist follows the calls as long as they are the scenario's, in its order
Log(op) ==
    IF Len(hist) < Len(app.script) /\ app.script[Len(hist) + 1] = op
    THEN Append(hist, op)
    ELSE IF app.script = <<>> THEN hist
    ELSE <<"off">>

----------------------------------------------------------------------------
(* The state of a value-initialised object, before Initialize. *)

InitWith(a) ==
    /\ app = a
    /\ m_Writer = LocalState
    /\ m_Reader = LocalState
    /\ m_WriterShared = 0
    /\ m_ReaderShared = 0
    /\ wpc = "idle"
    /\ rpc = "idle"
    /\ wcall = NoCall
    /\ rcall = NoCall
    /\ mem = [i \in {} |-> Junk]
    /\ queue = <<>>
    /\ lead = <<>>
    /\ wopen = {}
    /\ pubd = {}
    /\ ropen = {}
    /\ last = NoLast
    /\ hist = <<>>
    /\ total = NoTotal

IsPow2(n) == \E k \in 0 .. Width : n = 2 ^ k

\* the producer/consumer runs: a valid Initialize, every request shape
Init ==
    \E impl \in Impls :
        InitWith([impl |-> impl, bits |-> Width, cap |-> MaxTotal,
                  sizes |-> 0 .. MaxN, aligns |-> Aligns,
                  bufsizes |-> {n \in 1 .. MaxN : IsPow2(n)},
                  buffers |-> {CACHE_LINE_SIZE},
                  lines |-> {CACHE_LINE_SIZE}, script |-> <<>>,
                  strict |-> FALSE, lead |-> MaxLead,
                  oversize |-> FALSE, half |-> FALSE])

\* the same runs with callers that call Finish after every Prepare
InitStrict ==
    \E impl \in Impls :
        InitWith([impl |-> impl, bits |-> Width, cap |-> MaxTotal,
                  sizes |-> 0 .. MaxN, aligns |-> Aligns,
                  bufsizes |-> {n \in 1 .. MaxN : IsPow2(n)},
                  buffers |-> {CACHE_LINE_SIZE},
                  lines |-> {CACHE_LINE_SIZE}, script |-> <<>>,
                  strict |-> TRUE, lead |-> StrictLead,
                  oversize |-> FALSE, half |-> FALSE])

WrapScript ==
    <<"PrepareWrite", "FinishWrite", "PrepareRead", "FinishRead",
      "PrepareWrite", "FinishWrite", "PrepareRead", "FinishRead">>

\* the wrap scenario: a 16-byte buffer, 10-byte records, alignment 1
InitWrap ==
    \E impl \in Impls :
        InitWith([impl |-> impl, bits |-> Width, cap |-> 32,
                  sizes |-> {10}, aligns |-> {1}, bufsizes |-> {16},
                  buffers |-> {CACHE_LINE_SIZE},
                  lines |-> {CACHE_LINE_SIZE}, script |-> WrapScript,
                  strict |-> FALSE, lead |-> MaxLead,
                  oversize |-> FALSE, half |-> FALSE])

\* the life-cycle runs: every kind of argument to Initialize, few requests
InitLife ==
    \E impl \in Impls :
        InitWith([impl |-> impl, bits |-> Width, cap |-> LifeTotal,
                  sizes |-> 0 .. LifeMaxN, aligns |-> {1, 2},
                  bufsizes |-> 0 .. LifeMaxN,
                  buffers |-> {CACHE_LINE_SIZE, CACHE_LINE_SIZE + 8},
                  lines |-> {CACHE_LINE_SIZE, 2 * CACHE_LINE_SIZE},
                  script |-> <<>>, strict |-> FALSE, lead |-> MaxLead,
                  oversize |-> FALSE, half |-> FALSE])

\* the runs in which the counters pass 2^bits
InitOverflow ==
    \E impl \in Impls :
        InitWith([impl |-> impl, bits |-> OverflowBits,
                  cap |-> 2 ^ OverflowBits + OverflowPast,
                  sizes |-> 0 .. MaxN, aligns |-> {1, 2},
                  bufsizes |-> {n \in 2 .. MaxN :
                                    IsPow2(n) /\ 4 * n <= 2 ^ OverflowBits},
                  buffers |-> {CACHE_LINE_SIZE},
                  lines |-> {CACHE_LINE_SIZE}, script |-> <<>>,
                  strict |-> FALSE, lead |-> MaxLead, oversize |-> FALSE, half |-> FALSE])

\* the runs in which every record, padding included, takes at most half of the
\* buffer, with callers that call Finish after every Prepare
InitHalf ==
    \E impl \in Impls :
        InitWith([impl |-> impl, bits |-> Width, cap |-> HalfTotal,
                  sizes |-> 0 .. HalfMaxN, aligns |-> Aligns,
                  bufsizes |-> {n \in 2 .. HalfMaxN : IsPow2(n)},
                  buffers |-> {CACHE_LINE_SIZE},
                  lines |-> {CACHE_LINE_SIZE}, script |-> <<>>,
                  strict |-> TRUE, lead |-> StrictLead, oversize |-> FALSE,
                  half |-> TRUE])

\* the runs with requests the asserts are there for: sizes above the buffer
\* size, alignments that are no power of two
InitAssert ==
    \E impl \in Impls :
        InitWith([impl |-> impl, bits |-> Width, cap |-> LifeTotal,
                  sizes |-> 0 .. (LifeMaxN + 1), aligns |-> {0, 1, 2, 3},
                  bufsizes |-> {n \in 1 .. LifeMaxN : IsPow2(n)},
                  buffers |-> {CACHE_LINE_SIZE},
                  lines |-> {CACHE_LINE_SIZE}, script |-> <<>>,
                  strict |-> FALSE, lead |-> MaxLead, oversize |-> TRUE,
                  half |-> FALSE])

----------------------------------------------------------------------------
(* Initialize / Reattach / Reset. *)

\* the exception Initialize throws, "none" when it throws nothing
InitializeThrows(impl, line, buffer, size) ==
    IF line # CACHE_LINE_SIZE THEN "wrong cache line size"
    ELSE IF impl = "TRingBuffer" /\ buffer % CACHE_LINE_SIZE # 0
        THEN "buffer is not aligned on cache line"
    ELSE IF impl = "TRingBuffer" /\ ~is_power_of_two(size)
        THEN "size must be a power of two"
    ELSE "none"

\* m_Reader = m_Writer = LocalState(); both shared positions = 0
ResetRing ==
    /\ m_Writer' = LocalState
    /\ m_Reader' = LocalState
    /\ m_WriterShared' = 0
    /\ m_ReaderShared' = 0

\* a restart forgets the records in flight
ResetGhost ==
    /\ wcall' = NoCall
    /\ rcall' = NoCall
    /\ queue' = <<>>
    /\ lead' = <<>>
    /\ wopen' = {}
    /\ pubd' = {}
    /\ ropen' = {}

\* Reset(); ReattachWriter(buffer); m_Writer.size = m_Writer.end = size
InitializedWriter(buffer, size) ==
    [LocalState EXCEPT !.buffer = buffer, !.size = size, !.end = size]

\* faulty variant: the consumer's window opened like the producer's
InitializedReaderOpen(buffer, size) ==
    [LocalState EXCEPT !.buffer = buffer, !.size = size, !.end = size]

\* Reset(); ReattachReader(buffer); m_Reader.size = size
InitializedReader(buffer, size) ==
    [LocalState EXCEPT !.buffer = buffer, !.size = size]

\* faulty variant: Reset runs before the checks
InitializeResetFirst(buffer, size, line) ==
    /\ Quiesced
    /\ Running
    /\ LET thrown == InitializeThrows(app.impl, line, buffer, size) IN
        /\ last' = [op |-> "Initialize", buffer |-> buffer, size |-> size,
                    line |-> line, thrown |-> thrown, before |-> ring]
        /\ IF thrown # "none"
           THEN /\ ResetRing
                /\ ResetGhost
                /\ mem' = [i \in DOMAIN mem |-> Junk]
                /\ total' = NoTotal
                /\ UNCHANGED hist
           ELSE /\ m_Writer' = InitializedWriter(buffer, size)
                /\ m_Reader' = InitializedReader(buffer, size)
                /\ m_WriterShared' = 0
                /\ m_ReaderShared' = 0
                /\ ResetGhost
                /\ mem' = [i \in 0 .. (size - 1) |-> Junk]
                /\ hist' = <<>>
                /\ total' = NoTotal
    /\ UNCHANGED <<app, wpc, rpc>>

Initialize(buffer, size, line) ==
    /\ Quiesced
    /\ Running
    /\ LET thrown == InitializeThrows(app.impl, line, buffer, size) IN
        /\ last' = [op |-> "Initialize", buffer |-> buffer, size |-> size,
                    line |-> line, thrown |-> thrown, before |-> ring]
        /\ IF thrown # "none"
           THEN UNCHANGED <<ring, wcall, rcall, mem, queue, lead, wopen, pubd,
                            ropen, hist, total>>
           ELSE /\ m_Writer' = InitializedWriter(buffer, size)
                /\ m_Reader' = InitializedReader(buffer, size)
                /\ m_WriterShared' = 0
                /\ m_ReaderShared' = 0
                /\ ResetGhost
                /\ mem' = [i \in 0 .. (size - 1) |-> Junk]
                /\ hist' = <<>>
                /\ total' = NoTotal
    /\ UNCHANGED <<app, wpc, rpc>>

\* faulty variant: the pointer is installed into both views
ReattachReaderBoth(buffer) ==
    /\ Quiesced
    /\ Running
    /\ m_Reader' = [m_Reader EXCEPT !.buffer = buffer]
    /\ m_Writer' = [m_Writer EXCEPT !.buffer = buffer]
    /\ last' = NoLast
    /\ hist' = Log("ReattachReader")
    /\ UNCHANGED <<app, m_WriterShared, m_ReaderShared, wpc, rpc,
                   wcall, rcall, mem, queue, lead, wopen, pubd, ropen, total>>

ReattachReader(buffer) ==
    /\ Quiesced
    /\ Running
    /\ m_Reader' = [m_Reader EXCEPT !.buffer = buffer]
    /\ last' = NoLast
    /\ hist' = Log("ReattachReader")
    /\ UNCHANGED <<app, m_Writer, m_WriterShared, m_ReaderShared, wpc, rpc,
                   wcall, rcall, mem, queue, lead, wopen, pubd, ropen, total>>

ReattachWriter(buffer) ==
    /\ Quiesced
    /\ Running
    /\ m_Writer' = [m_Writer EXCEPT !.buffer = buffer]
    /\ last' = NoLast
    /\ hist' = Log("ReattachWriter")
    /\ UNCHANGED <<app, m_Reader, m_WriterShared, m_ReaderShared, wpc, rpc,
                   wcall, rcall, mem, queue, lead, wopen, pubd, ropen, total>>

Reset ==
    /\ Quiesced
    /\ Running
    /\ ResetRing
    /\ ResetGhost
    /\ mem' = [i \in DOMAIN mem |-> Junk]
    /\ last' = [op |-> "Reset", wbuffer |-> m_Writer.buffer,
                rbuffer |-> m_Reader.buffer, size |-> m_Writer.size]
    /\ hist' = Log("Reset")
    /\ total' = NoTotal
    /\ UNCHANGED <<app, wpc, rpc>>

----------------------------------------------------------------------------
(* The records both sides agree on: whoever reaches a record first chooses  *)
(* its size, alignment and payload, the other side follows.                 *)

Records(n) ==
    {[size |-> s, align |-> a] :
        s \in {x \in app.sizes : x <= n \/ app.oversize}, a \in app.aligns}

WriterPicks(rec) ==
    IF lead # <<>>
    THEN /\ rec = Head(lead)
         /\ lead' = Tail(lead)
         /\ queue' = queue
    ELSE /\ Len(queue) < app.lead
         /\ queue' = Append(queue, rec)
         /\ lead' = lead

ReaderPicks(rec) ==
    /\ IF queue # <<>>
       THEN /\ rec = Head(queue)
            /\ queue' = Tail(queue)
            /\ lead' = lead
       ELSE /\ Len(lead) < app.lead
            /\ lead' = Append(lead, rec)
            /\ queue' = queue
    /\ mem' = [i \in DOMAIN mem |-> Age(mem[i])]

----------------------------------------------------------------------------
(* Producer. *)

\* the request, with the padding its alignment costs at this position, takes
\* at most half of the buffer
HalfFits(st, rec) ==
    2 * (Align(st.pos, rec.align) - st.pos + rec.size) <= st.size

\* the asserts of Align and PrepareWrite/PrepareRead (TRingBuffer only)
AssertsHold(st, size, alignment) ==
    \/ app.impl # "TRingBuffer"
    \/ /\ is_power_of_two(alignment)
       /\ Trunc(Trunc(Align(st.pos, alignment) + size) - st.pos) <= st.size

\* faulty variant: a wrap counts only the bytes used, not the skipped tail
WrapAroundUsed(st, pos, end) ==
    IF end > st.size
    THEN [pos |-> 0, end |-> Trunc(end - pos), base |-> Trunc(st.base + st.pos)]
    ELSE [pos |-> pos, end |-> end, base |-> st.base]

\* faulty variant: a wrap that forgets to move the end with the position
WrapAroundKeepEnd(st, pos, end) ==
    IF end > st.size
    THEN [pos |-> 0, end |-> end, base |-> Trunc(st.base + st.size)]
    ELSE [pos |-> pos, end |-> end, base |-> st.base]

\* faulty variant: a wrap that leaves the base where it was
WrapAroundStay(st, pos, end) ==
    IF end > st.size
    THEN [pos |-> 0, end |-> Trunc(end - pos), base |-> st.base]
    ELSE [pos |-> pos, end |-> end, base |-> st.base]

\* the head of GetBufferSpaceTo*: a reservation past the end goes to offset 0
WrapAround(st, pos, end) ==
    IF end > st.size
    THEN [pos |-> 0, end |-> Trunc(end - pos), base |-> Trunc(st.base + st.size)]
    ELSE [pos |-> pos, end |-> end, base |-> st.base]

\* faulty variant: the epoch base is left out of the producer's window
WriterAvailableNoBase(readerPos) == Trunc(readerPos + m_Writer.size)

\* what the producer may advance to in this epoch
WriterAvailable(readerPos) == Trunc(readerPos - m_Writer.base + m_Writer.size)

\* faulty variant: the epoch base is left out of the consumer's window
ReaderAvailableNoBase(writerPos) == Trunc(writerPos)

\* faulty variant: the consumer's window reaches one byte too far
ReaderAvailableAhead(writerPos) == Trunc(writerPos - m_Reader.base + 1)

\* what the consumer may advance to in this epoch
ReaderAvailable(writerPos) == Trunc(writerPos - m_Reader.base)

\* the buffer holds size published, unreleased bytes as PrepareWrite is called
WriterFull ==
    /\ m_Writer.size > 0
    /\ pubd = 0 .. (m_Writer.size - 1)

\* faulty variant: the comparison made on the unsigned values
AdmitsUnsigned(available, end) == Trunc(available) >= Trunc(end)

\* faulty variant: the window must be strictly larger than the request
AdmitsStrict(available, end) == Signed(available) > Signed(end)

\* Signed comparison (available can be negative)
Admits(available, end) == Signed(available) >= Signed(end)

PrepareWrite(rec) ==
    /\ Running
    /\ wpc = "idle"
    /\ total.wbase < app.cap
    /\ app.strict => m_WriterShared = Trunc(m_Writer.base + m_Writer.pos)
    /\ app.half => HalfFits(m_Writer, rec)
    /\ WriterPicks(rec)
    /\ LET pos == Align(m_Writer.pos, rec.align)
           end == Trunc(pos + rec.size)
           w == WrapAround(m_Writer, pos, end)
       IN
        IF ~AssertsHold(m_Writer, rec.size, rec.align)
        THEN /\ wpc' = "abort"
             /\ wcall' = [pos |-> pos, end |-> end, size |-> rec.size,
                          align |-> rec.align, full |-> FALSE]
             /\ UNCHANGED <<m_Writer, wopen, hist, total>>
        ELSE IF end > m_Writer.end
        THEN /\ wpc' = "spin"
             /\ m_Writer' = [m_Writer EXCEPT !.base = w.base]
             /\ wcall' = [pos |-> w.pos, end |-> w.end, size |-> rec.size,
                          align |-> rec.align, full |-> WriterFull]
             /\ total' = [total EXCEPT
                            !.wbase = @ + Trunc(w.base - m_Writer.base)]
             /\ UNCHANGED <<wopen, hist>>
        ELSE /\ wpc' = "fill"
             /\ m_Writer' = [m_Writer EXCEPT !.pos = end]
             /\ wcall' = [pos |-> pos, end |-> end, size |-> rec.size,
                          align |-> rec.align, full |-> WriterFull]
             /\ wopen' = wopen \cup Extent(wcall')
             /\ hist' = Log("PrepareWrite")
             /\ total' = total
    /\ last' = NoLast
    /\ UNCHANGED <<app, m_Reader, m_WriterShared, m_ReaderShared, rpc, rcall,
                   mem, pubd, ropen>>

\* faulty variant: the slow path publishes the reservation as it returns
GetBufferSpaceToWriteToPublishing ==
    /\ Running
    /\ wpc = "spin"
    /\ LET available == WriterAvailable(m_ReaderShared) IN
        IF Admits(available, wcall.end)
        THEN /\ m_Writer' = [m_Writer EXCEPT
                                !.end = Min(available, m_Writer.size),
                                !.pos = wcall.end]
             /\ wpc' = "fill"
             /\ wopen' = wopen \cup Extent(wcall)
             /\ hist' = Log("PrepareWrite")
             /\ m_WriterShared' = Trunc(m_Writer.base + wcall.end)
        ELSE UNCHANGED <<m_Writer, wpc, wopen, hist, m_WriterShared>>
    /\ last' = NoLast
    /\ UNCHANGED <<app, m_Reader, m_ReaderShared, rpc, wcall,
                   rcall, mem, queue, lead, pubd, ropen, total>>

\* one turn of the for (;;) loop, and the return of PrepareWrite after it
GetBufferSpaceToWriteTo ==
    /\ Running
    /\ wpc = "spin"
    /\ LET available == WriterAvailable(m_ReaderShared) IN
        IF Admits(available, wcall.end)
        THEN /\ m_Writer' = [m_Writer EXCEPT
                                !.end = Min(available, m_Writer.size),
                                !.pos = wcall.end]
             /\ wpc' = "fill"
             /\ wopen' = wopen \cup Extent(wcall)
             /\ hist' = Log("PrepareWrite")
        ELSE UNCHANGED <<m_Writer, wpc, wopen, hist>>
    /\ last' = NoLast
    /\ UNCHANGED <<app, m_Reader, m_WriterShared, m_ReaderShared, rpc, wcall,
                   rcall, mem, queue, lead, pubd, ropen, total>>

\* the caller fills the extent (Write<T>, WriteArray<T>)
Write ==
    /\ Running
    /\ wpc = "fill"
    /\ mem' = [i \in DOMAIN mem |->
                 IF i \in Extent(wcall)
                 THEN Byte(WriterAhead, i - wcall.pos + 1) ELSE mem[i]]
    /\ wpc' = "idle"
    /\ wcall' = NoCall
    /\ last' = NoLast
    /\ UNCHANGED <<app, ring, rpc, rcall, queue, lead, wopen, pubd, ropen,
                   hist, total>>

\* faulty variant: the position is published without the base
FinishWriteNoBase ==
    /\ Running
    /\ wpc = "idle"
    /\ m_WriterShared' = Trunc(m_Writer.pos)
    /\ pubd' = pubd \cup wopen
    /\ wopen' = {}
    /\ last' = NoLast
    /\ hist' = Log("FinishWrite")
    /\ total' = [total EXCEPT !.ws = total.wbase + m_Writer.pos]
    /\ UNCHANGED <<app, m_Writer, m_Reader, m_ReaderShared, wpc, rpc, wcall,
                   rcall, mem, queue, lead, ropen>>

FinishWrite ==
    /\ Running
    /\ wpc = "idle"
    /\ m_WriterShared' = Trunc(m_Writer.base + m_Writer.pos)
    /\ pubd' = pubd \cup wopen
    /\ wopen' = {}
    /\ last' = NoLast
    /\ hist' = Log("FinishWrite")
    /\ total' = [total EXCEPT !.ws = total.wbase + m_Writer.pos]
    /\ UNCHANGED <<app, m_Writer, m_Reader, m_ReaderShared, wpc, rpc, wcall,
                   rcall, mem, queue, lead, ropen>>

----------------------------------------------------------------------------
(* Consumer. *)

PrepareRead(rec) ==
    /\ Running
    /\ rpc = "idle"
    /\ total.rbase < app.cap
    /\ app.strict => m_ReaderShared = Trunc(m_Reader.base + m_Reader.pos)
    /\ app.half => HalfFits(m_Reader, rec)
    /\ ReaderPicks(rec)
    /\ LET pos == Align(m_Reader.pos, rec.align)
           end == Trunc(pos + rec.size)
           w == WrapAround(m_Reader, pos, end)
       IN
        IF ~AssertsHold(m_Reader, rec.size, rec.align)
        THEN /\ rpc' = "abort"
             /\ rcall' = [pos |-> pos, end |-> end, size |-> rec.size,
                          align |-> rec.align, full |-> FALSE]
             /\ UNCHANGED <<m_Reader, ropen, hist, total>>
        ELSE IF end > m_Reader.end
        THEN /\ rpc' = "spin"
             /\ m_Reader' = [m_Reader EXCEPT !.base = w.base]
             /\ rcall' = [pos |-> w.pos, end |-> w.end, size |-> rec.size,
                          align |-> rec.align, full |-> FALSE]
             /\ total' = [total EXCEPT
                            !.rbase = @ + Trunc(w.base - m_Reader.base)]
             /\ UNCHANGED <<ropen, hist>>
        ELSE /\ rpc' = "take"
             /\ m_Reader' = [m_Reader EXCEPT !.pos = end]
             /\ rcall' = [pos |-> pos, end |-> end, size |-> rec.size,
                          align |-> rec.align, full |-> FALSE]
             /\ ropen' = ropen \cup Extent(rcall')
             /\ hist' = Log("PrepareRead")
             /\ total' = total
    /\ last' = NoLast
    /\ UNCHANGED <<app, m_Writer, m_WriterShared, m_ReaderShared, wpc, wcall,
                   wopen, pubd>>

\* faulty variant: the consumer's window is not capped at the buffer size
GetBufferSpaceToReadFromUncapped ==
    /\ Running
    /\ rpc = "spin"
    /\ LET available == ReaderAvailable(m_WriterShared) IN
        IF Admits(available, rcall.end)
        THEN /\ m_Reader' = [m_Reader EXCEPT
                                !.end = available,
                                !.pos = rcall.end]
             /\ rpc' = "take"
             /\ ropen' = ropen \cup Extent(rcall)
             /\ hist' = Log("PrepareRead")
        ELSE UNCHANGED <<m_Reader, rpc, ropen, hist>>
    /\ last' = NoLast
    /\ UNCHANGED <<app, m_Writer, m_WriterShared, m_ReaderShared, wpc, wcall,
                   rcall, mem, queue, lead, wopen, pubd, total>>

\* one turn of the for (;;) loop, and the return of PrepareRead after it
GetBufferSpaceToReadFrom ==
    /\ Running
    /\ rpc = "spin"
    /\ LET available == ReaderAvailable(m_WriterShared) IN
        IF Admits(available, rcall.end)
        THEN /\ m_Reader' = [m_Reader EXCEPT
                                !.end = Min(available, m_Reader.size),
                                !.pos = rcall.end]
             /\ rpc' = "take"
             /\ ropen' = ropen \cup Extent(rcall)
             /\ hist' = Log("PrepareRead")
        ELSE UNCHANGED <<m_Reader, rpc, ropen, hist>>
    /\ last' = NoLast
    /\ UNCHANGED <<app, m_Writer, m_WriterShared, m_ReaderShared, wpc, wcall,
                   rcall, mem, queue, lead, wopen, pubd, total>>

\* the caller reads the extent (Read<T>, ReadArray<T>)
Read ==
    /\ Running
    /\ rpc = "take"
    /\ rpc' = "idle"
    /\ rcall' = NoCall
    /\ last' = NoLast
    /\ UNCHANGED <<app, ring, wpc, wcall, mem, queue, lead, wopen, pubd,
                   ropen, hist, total>>

FinishRead ==
    /\ Running
    /\ rpc = "idle"
    /\ m_ReaderShared' = Trunc(m_Reader.base + m_Reader.pos)
    /\ pubd' = pubd \ ropen
    /\ ropen' = {}
    /\ last' = NoLast
    /\ hist' = Log("FinishRead")
    /\ total' = [total EXCEPT !.rs = total.rbase + m_Reader.pos]
    /\ UNCHANGED <<app, m_Writer, m_Reader, m_WriterShared, wpc, rpc, wcall,
                   rcall, mem, queue, lead, wopen>>

----------------------------------------------------------------------------
DoInitialize ==
    \E buffer \in app.buffers, size \in app.bufsizes, line \in app.lines :
        Initialize(buffer, size, line)

DoReattachReader == \E buffer \in app.buffers : ReattachReader(buffer)

DoReattachWriter == \E buffer \in app.buffers : ReattachWriter(buffer)

DoPrepareWrite == \E rec \in Records(m_Writer.size) : PrepareWrite(rec)

DoPrepareRead == \E rec \in Records(m_Reader.size) : PrepareRead(rec)

Next ==
    \/ DoInitialize
    \/ DoReattachReader
    \/ DoReattachWriter
    \/ Reset
    \/ DoPrepareWrite
    \/ GetBufferSpaceToWriteTo
    \/ Write
    \/ FinishWrite
    \/ DoPrepareRead
    \/ GetBufferSpaceToReadFrom
    \/ Read
    \/ FinishRead

Spec == Init /\ [][Next]_vars

SpecStrict == InitStrict /\ [][Next]_vars

SpecWrap == InitWrap /\ [][Next]_vars

SpecLife == InitLife /\ [][Next]_vars

SpecAssert == InitAssert /\ [][Next]_vars

SpecOverflow == InitOverflow /\ [][Next]_vars

SpecHalf == InitHalf /\ [][Next]_vars

----------------------------------------------------------------------------
(* Properties. *)

\* C1 (FIFO / round trip): while the consumer holds the extent of its k-th
\* PrepareRead, the bytes in it are bytes 1..size of the k-th record the
\* producer wrote, whatever the interleaving and whether or not the record
\* was moved to offset 0.
C1_FIFO ==
    rpc = "take" =>
        \A i \in Extent(rcall) :
            i \in DOMAIN mem /\ mem[i] = <<-1, i - rcall.pos + 1>>

\* a record that would have straddled the end of the buffer is being read
C1_Witness ==
    /\ rpc = "take"
    /\ rcall.size >= 2
    /\ rcall.pos = 0
    /\ m_Reader.base > 0
    /\ m_Reader.base = m_Writer.base

\* C2 (capacity bound): the signed difference of the shared counters is
\* never negative and never more than the buffer size.
C2_CapacityBound ==
    /\ Signed(m_WriterShared - m_ReaderShared) >= 0
    /\ Signed(m_WriterShared - m_ReaderShared) <= m_Writer.size

\* the buffer is full in a later epoch
C2_Witness ==
    /\ m_Writer.size > 1
    /\ m_Writer.base > 0
    /\ Signed(m_WriterShared - m_ReaderShared) = m_Writer.size

\* C3 (no overwrite): the offsets the producer has reserved and not yet
\* published are disjoint from the offsets that are published and not yet
\* released, and from the extents the consumer holds.
C3_NoOverwrite ==
    /\ wopen \cap pubd = {}
    /\ wopen \cap ropen = {}

\* the producer holds an extent in a later epoch while the consumer holds one
C3_Witness ==
    /\ wpc = "fill"
    /\ wcall.size > 0
    /\ m_Writer.base > m_Reader.base
    /\ ropen # {}
    /\ pubd # ropen

\* C4 (no read-ahead): when PrepareRead has returned an extent ending at
\* offset e, base + e is at most the producer's shared counter, and every
\* byte of the extent has been published by a FinishWrite.
C4_NoReadAhead ==
    rpc = "take" =>
        /\ Signed(m_WriterShared - (m_Reader.base + rcall.end)) >= 0
        /\ Extent(rcall) \subseteq pubd
        /\ rcall.size > 0 => Signed(m_WriterShared - m_ReaderShared) > 0

\* a read has returned while the producer holds a reservation it has not
\* published
C4_Witness ==
    /\ rpc = "take"
    /\ rcall.size > 0
    /\ wopen # {}
    /\ Signed(m_WriterShared - (m_Reader.base + rcall.end)) = 0

\* both sides are in their slow paths and neither admission test passes
BothStuck ==
    /\ wpc = "spin"
    /\ rpc = "spin"
    /\ ~Admits(WriterAvailable(m_ReaderShared), wcall.end)
    /\ ~Admits(ReaderAvailable(m_WriterShared), rcall.end)

\* C5 (no deadlock): no reachable state has both sides spinning in their slow
\* paths with neither able to leave (nothing else can change a counter then,
\* so neither Prepare call would ever return).
C5_NoDeadlock == ~BothStuck

\* C6 (backpressure): a PrepareWrite of size > 0 called on a full buffer has
\* not returned unless the consumer has released at least size bytes, and
\* once the consumer has released everything that was published the
\* admission test of the spinning PrepareWrite passes.
C6_Backpressure ==
    /\ (wpc = "fill" /\ wcall.full /\ wcall.size > 0) =>
        /\ Cardinality(pubd) <= m_Writer.size - wcall.size
        /\ Signed(m_WriterShared - m_ReaderShared)
                <= m_Writer.size - wcall.size
    /\ (wpc = "spin" /\ wcall.full /\ wcall.size > 0 /\ pubd = {}
            /\ m_ReaderShared = m_WriterShared) =>
        Admits(WriterAvailable(m_ReaderShared), wcall.end)

\* C7 (alignment and containment): the offset a Prepare call returns is a
\* multiple of the alignment asked for and offset + size is at most the
\* buffer size.
C7_AlignedContained ==
    /\ wpc = "fill" =>
        /\ wcall.pos % wcall.align = 0
        /\ wcall.pos + wcall.size <= m_Writer.size
    /\ rpc = "take" =>
        /\ rcall.pos % rcall.align = 0
        /\ rcall.pos + rcall.size <= m_Reader.size

\* a reservation with alignment 4 that went to offset 0 in a later epoch
C7_Witness ==
    /\ wpc = "fill"
    /\ wcall.align = 4
    /\ wcall.size > 0
    /\ wcall.pos = 0
    /\ m_Writer.base > 0

\* the eight calls of the wrap scenario have been made, in order
WrapDone == hist = WrapScript /\ Quiesced

\* C8 as stated: after the wrap scenario the shared consumer counter is 20.
C8_ConsumerAt20 == WrapDone => m_ReaderShared = 20

\* C8 (wrap scenario): after the wrap scenario the second batch is in the
\* buffer at offsets 0..9 and the shared consumer counter is 26: the six
\* bytes left at the end of the first epoch are counted.
C8_ConsumerAt26 ==
    WrapDone =>
        /\ m_ReaderShared = 26
        /\ \A i \in 0 .. 9 : mem[i] = <<-1, i + 1>>

C8_Witness == WrapDone /\ m_Writer.size = 16 /\ m_Reader.pos = 10

\* C9 (Initialize validation): Initialize throws "wrong cache line size",
\* else "buffer is not aligned on cache line", else "size must be a power of
\* two", by the first check that fails, and nothing when all three pass.
C9_InitializeValidation ==
    last.op = "Initialize" =>
        last.thrown =
            IF last.line # CACHE_LINE_SIZE THEN "wrong cache line size"
            ELSE IF last.buffer % CACHE_LINE_SIZE # 0
                THEN "buffer is not aligned on cache line"
            ELSE IF ~(\E k \in 0 .. app.bits : last.size = 2 ^ k)
                THEN "size must be a power of two"
            ELSE "none"

\* C10 (Initialize post-state): after an Initialize that did not throw,
\* both shared counters are 0 and the views are {buffer, pos 0, base 0,
\* size}, with end = size for the producer and end = 0 for the consumer.
C10_InitializePost ==
    (last.op = "Initialize" /\ last.thrown = "none") =>
        /\ m_WriterShared = 0
        /\ m_ReaderShared = 0
        /\ m_Writer = [buffer |-> last.buffer, pos |-> 0, end |-> last.size,
                       base |-> 0, size |-> last.size]
        /\ m_Reader = [buffer |-> last.buffer, pos |-> 0, end |-> 0,
                       base |-> 0, size |-> last.size]

\* Initialize has succeeded on an object that was in use, with another size
C10_Witness ==
    /\ last.op = "Initialize"
    /\ last.thrown = "none"
    /\ last.size > 0
    /\ last.before[1].size # last.size
    /\ last.before[1].pos > 0
    /\ last.before[2].end > 0
    /\ last.before[3] > 0
    /\ last.before[4] > 0

\* C11 (Reset): after a Reset of an initialised instance the state is the one
\* Initialize left: counters 0, pos = base = 0, the size and the buffer bases
\* kept, producer end = size, consumer end = 0.
C11_ResetRestores ==
    (last.op = "Reset" /\ last.size > 0) =>
        /\ m_WriterShared = 0
        /\ m_ReaderShared = 0
        /\ m_Writer = [buffer |-> last.wbuffer, pos |-> 0, end |-> last.size,
                       base |-> 0, size |-> last.size]
        /\ m_Reader = [buffer |-> last.rbuffer, pos |-> 0, end |-> 0,
                       base |-> 0, size |-> last.size]

\* C12 (Reattach frame): ReattachReader changes nothing of the ring but the
\* consumer view's buffer, ReattachWriter nothing but the producer view's
\* buffer: counters, pos, end, base, size and the other view stay as they are.
C12_ReattachFrame ==
    [][/\ (\E b \in app.buffers : ReattachReader(b)) =>
            /\ UNCHANGED <<m_Writer, m_WriterShared, m_ReaderShared>>
            /\ m_Reader' = [m_Reader EXCEPT !.buffer = m_Reader'.buffer]
       /\ (\E b \in app.buffers : ReattachWriter(b)) =>
            /\ UNCHANGED <<m_Reader, m_WriterShared, m_ReaderShared>>
            /\ m_Writer' = [m_Writer EXCEPT !.buffer = m_Writer'.buffer]]_vars

\* a PrepareRead has returned an extent after the consumer was reattached
\* to another address than the producer's
C12_Witness ==
    /\ rpc = "take"
    /\ rcall.size > 0
    /\ m_Reader.buffer # NullPtr
    /\ m_Reader.buffer # m_Writer.buffer

\* C13 (reservation asserts): a Prepare call is stopped by an assert only
\* when its alignment is no power of two or its size is above the buffer
\* size, and a Prepare call that got past the asserts has a power-of-two
\* alignment and a size of at most the buffer size.
C13_Asserts ==
    /\ wpc = "abort" =>
            ~IsPow2(wcall.align) \/ wcall.size > m_Writer.size
    /\ rpc = "abort" =>
            ~IsPow2(rcall.align) \/ rcall.size > m_Reader.size
    /\ wpc \in {"spin", "fill"} =>
            IsPow2(wcall.align) /\ wcall.size <= m_Writer.size
    /\ rpc \in {"spin", "take"} =>
            IsPow2(rcall.align) /\ rcall.size <= m_Reader.size

\* C14 (counter overflow): with w-bit counters that wrap, the signed
\* admission test of either slow path decides as the same test on the
\* running totals without overflow does, every extent read holds the record
\* the consumer is on, and the totals differ by at least 0 and at most the
\* buffer size.
C14_Overflow ==
    /\ wpc = "spin" =>
            (Admits(WriterAvailable(m_ReaderShared), wcall.end)
                <=> total.rs - total.wbase + m_Writer.size >= wcall.end)
    /\ rpc = "spin" =>
            (Admits(ReaderAvailable(m_WriterShared), rcall.end)
                <=> total.ws - total.rbase >= rcall.end)
    /\ C1_FIFO
    /\ total.ws - total.rs >= 0
    /\ total.ws - total.rs <= m_Writer.size

\* the producer's counter has overflowed, the consumer's has not, and the
\* consumer's slow path admits a read
C14_Witness ==
    /\ total.ws >= Mod
    /\ total.rs < Mod
    /\ rpc = "spin"
    /\ rcall.size > 0
    /\ Admits(ReaderAvailable(m_WriterShared), rcall.end)

\* C15 (monotonic counters): no step other than Initialize and Reset makes
\* the running total of a shared counter smaller, and no FinishWrite or
\* FinishRead moves its w-bit counter backwards.
C15_Monotonic ==
    [][/\ (DoInitialize \/ Reset) \/
            (total.ws' >= total.ws /\ total.rs' >= total.rs)
       /\ FinishWrite => Signed(m_WriterShared' - m_WriterShared) >= 0
       /\ FinishRead => Signed(m_ReaderShared' - m_ReaderShared) >= 0]_vars

\* both sides have published after a wrap to offset 0
C15_Witness ==
    /\ m_Writer.base > 0
    /\ m_Writer.pos < m_Writer.size
    /\ m_WriterShared = Trunc(m_Writer.base + m_Writer.pos)
    /\ m_Reader.base > 0
    /\ m_Reader.pos > 0
    /\ m_ReaderShared = Trunc(m_Reader.base + m_Reader.pos)

\* C16 (publication): FinishWrite stores base + pos of the producer into the
\* producer's shared counter and changes no view, not the consumer's counter
\* and no byte; FinishRead does the same on the consumer's side; a Finish
\* whose counter already holds base + pos changes nothing of the ring.
C16_Publication ==
    [][/\ FinishWrite =>
            /\ m_WriterShared' = Trunc(m_Writer.base + m_Writer.pos)
            /\ UNCHANGED <<m_Writer, m_Reader, m_ReaderShared, mem>>
       /\ FinishRead =>
            /\ m_ReaderShared' = Trunc(m_Reader.base + m_Reader.pos)
            /\ UNCHANGED <<m_Writer, m_Reader, m_WriterShared, mem>>
       /\ (FinishWrite /\ m_WriterShared = Trunc(m_Writer.base + m_Writer.pos))
            => UNCHANGED <<ring, mem>>
       /\ (FinishRead /\ m_ReaderShared = Trunc(m_Reader.base + m_Reader.pos))
            => UNCHANGED <<ring, mem>>]_vars

\* a FinishWrite has published a record written after a wrap, and the
\* consumer has not released it
C16_Witness ==
    /\ m_Writer.base > 0
    /\ m_WriterShared = Trunc(m_Writer.base + m_Writer.pos)
    /\ wopen = {}
    /\ pubd # {}
    /\ Signed(m_WriterShared - m_ReaderShared) > 0

\* C17 (a reservation does not publish): a PrepareWrite changes pos, end and
\* base of the producer's view and nothing else of the ring, a PrepareRead
\* pos, end and base of the consumer's view and nothing else; a reservation
\* made while earlier ones are unpublished lies clear of them, and the
\* consumer holds no offset of an unpublished reservation.
C17_ReserveOnly ==
    [][/\ (DoPrepareWrite \/ GetBufferSpaceToWriteTo) =>
            /\ UNCHANGED <<m_WriterShared, m_ReaderShared, m_Reader>>
            /\ m_Writer'.buffer = m_Writer.buffer
            /\ m_Writer'.size = m_Writer.size
            /\ wpc' = "fill" =>
                    /\ Extent(wcall') \cap wopen = {}
                    /\ wopen' = wopen \cup Extent(wcall')
       /\ (DoPrepareRead \/ GetBufferSpaceToReadFrom) =>
            /\ UNCHANGED <<m_WriterShared, m_ReaderShared, m_Writer>>
            /\ m_Reader'.buffer = m_Reader.buffer
            /\ m_Reader'.size = m_Reader.size
       /\ ropen' \cap wopen' = {}]_vars

\* a second PrepareWrite has returned before any FinishWrite of the first,
\* while the consumer waits in its slow path
C17_Witness ==
    /\ wpc = "fill"
    /\ wcall.size > 0
    /\ wopen # Extent(wcall)
    /\ m_WriterShared # Trunc(m_Writer.base + wcall.pos)
    /\ rpc = "spin"

\* C18 (local-state invariant): while the instance is initialised each view
\* has 0 <= pos <= end <= N, a base that is a multiple of N, and the size N
\* that was given to Initialize.
C18_LocalState ==
    m_Writer.size > 0 =>
        /\ 0 <= m_Writer.pos /\ m_Writer.pos <= m_Writer.end
        /\ m_Writer.end <= m_Writer.size
        /\ m_Writer.base % m_Writer.size = 0
        /\ m_Writer.size = Cardinality(DOMAIN mem)
        /\ 0 <= m_Reader.pos /\ m_Reader.pos <= m_Reader.end
        /\ m_Reader.end <= m_Reader.size
        /\ m_Reader.base % m_Writer.size = 0
        /\ m_Reader.size = Cardinality(DOMAIN mem)

\* a PrepareRead has returned with more published than the rest of the
\* epoch holds, so that its window was capped at the buffer size
C18_Witness ==
    /\ rpc = "take"
    /\ m_Reader.base > 0
    /\ m_Reader.end = m_Reader.size
    /\ ReaderAvailable(m_WriterShared) > m_Reader.size

\* C19 (wrap policy): a Prepare call whose aligned offset plus size is above
\* N gets the extent [0, size) and moves that side's base up by N; any other
\* Prepare call gets its aligned offset and leaves the base alone.
C19_WrapPolicy ==
    [][/\ (wpc = "idle" /\ wpc' \in {"spin", "fill"}) =>
            LET aligned == Align(m_Writer.pos, wcall'.align) IN
                IF aligned + wcall'.size > m_Writer.size
                THEN /\ wcall'.pos = 0
                     /\ wcall'.end = wcall'.size
                     /\ m_Writer'.base = Trunc(m_Writer.base + m_Writer.size)
                ELSE /\ wcall'.pos = aligned
                     /\ wcall'.end = aligned + wcall'.size
                     /\ m_Writer'.base = m_Writer.base
       /\ (rpc = "idle" /\ rpc' \in {"spin", "take"}) =>
            LET aligned == Align(m_Reader.pos, rcall'.align) IN
                IF aligned + rcall'.size > m_Reader.size
                THEN /\ rcall'.pos = 0
                     /\ rcall'.end = rcall'.size
                     /\ m_Reader'.base = Trunc(m_Reader.base + m_Reader.size)
                ELSE /\ rcall'.pos = aligned
                     /\ rcall'.end = aligned + rcall'.size
                     /\ m_Reader'.base = m_Reader.base]_vars

\* a PrepareWrite has gone to offset 0 of the next epoch, leaving a tail of
\* the buffer unused
C19_Witness ==
    /\ wpc = "spin"
    /\ wcall.pos = 0
    /\ wcall.size > 0
    /\ m_Writer.base > 0
    /\ 0 < m_Writer.pos
    /\ m_Writer.pos < m_Writer.size

\* C20 (wrap symmetry): when the consumer has been handed as many records
\* as the producer, with the same sizes and alignments, its view has the pos
\* and the base of the producer's view (so the last extents handed out start
\* at the same offset in the same epoch), and once both sides have published
\* the two shared counters are equal.
C20_WrapSymmetry ==
    (/\ queue = <<>> /\ lead = <<>>
     /\ wpc \in {"idle", "fill"} /\ rpc \in {"idle", "take"}) =>
        /\ m_Reader.pos = m_Writer.pos
        /\ m_Reader.base = m_Writer.base
        /\ rpc = "take" => rcall.end = m_Writer.pos
        /\ (/\ m_WriterShared = Trunc(m_Writer.base + m_Writer.pos)
            /\ m_ReaderShared = Trunc(m_Reader.base + m_Reader.pos))
                => m_ReaderShared = m_WriterShared

\* the consumer has been handed its extent of a record that both sides
\* placed at offset 0 of a later epoch, after an unused tail
C20_Witness ==
    /\ queue = <<>> /\ lead = <<>>
    /\ rpc = "take"
    /\ rcall.pos = 0
    /\ rcall.size > 0
    /\ m_Reader.base > 0
    /\ Signed(m_ReaderShared - m_Reader.base) < 0

\* C21 (cached window): while a side is not in its slow path its cached
\* window is covered by what the other side has published: producer base +
\* end is at most the consumer's counter + N, consumer base + end at most the
\* producer's counter (as signed w-bit differences and on the running totals).
C21_CachedWindow ==
    /\ wpc # "spin" =>
        /\ Signed(m_ReaderShared + m_Writer.size
                    - (m_Writer.base + m_Writer.end)) >= 0
        /\ total.wbase + m_Writer.end <= total.rs + m_Writer.size
    /\ rpc # "spin" =>
        /\ Signed(m_WriterShared - (m_Reader.base + m_Reader.end)) >= 0
        /\ total.rbase + m_Reader.end <= total.ws

\* after a wrap both cached windows end inside the buffer, exactly where the
\* other side's counter puts them
C21_Witness ==
    /\ wpc = "fill"
    /\ m_Writer.base > 0
    /\ m_Writer.end < m_Writer.size
    /\ Trunc(m_Writer.base + m_Writer.end)
            = Trunc(m_ReaderShared + m_Writer.size)
    /\ rpc = "idle"
    /\ m_Reader.base > 0
    /\ m_Reader.end < m_Reader.size
    /\ Trunc(m_Reader.base + m_Reader.end) = m_WriterShared

\* C22 (half-capacity liveness): when every record with its padding takes at
\* most N/2 and each Prepare is followed by its Finish, the two sides are
\* never both held in their slow paths, a spinning PrepareWrite is admitted
\* once the consumer has released everything published, and a spinning
\* PrepareRead is admitted once its record is published.
C22_HalfCapacity ==
    /\ ~BothStuck
    /\ (/\ wpc = "spin" /\ rpc = "idle" /\ Len(queue) = 1
        /\ m_ReaderShared = Trunc(m_Reader.base + m_Reader.pos))
            => Admits(WriterAvailable(m_ReaderShared), wcall.end)
    /\ (/\ rpc = "spin" /\ wpc = "idle" /\ lead = <<>>
        /\ m_WriterShared = Trunc(m_Writer.base + m_Writer.pos))
            => Admits(ReaderAvailable(m_WriterShared), rcall.end)

\* a PrepareWrite that went to offset 0 waits, the consumer has released
\* every record before it, and the admission test passes
C22_Witness ==
    /\ wpc = "spin"
    /\ wcall.pos = 0
    /\ wcall.size > 0
    /\ m_Writer.base > 0
    /\ m_Writer.pos < m_Writer.size
    /\ rpc = "idle"
    /\ Len(queue) = 1
    /\ m_ReaderShared = Trunc(m_Reader.base + m_Reader.pos)
    /\ m_ReaderShared = m_WriterShared
    /\ Admits(WriterAvailable(m_ReaderShared), wcall.end)

\* C23 (failed Initialize): when Initialize throws, both shared counters and
\* every field of both views are as they were before the call.
C23_FailedInitialize ==
    (last.op = "Initialize" /\ last.thrown # "none") => ring = last.before

\* Initialize has thrown for the size, on an instance that was in use
C23_Witness ==
    /\ last.op = "Initialize"
    /\ last.thrown = "size must be a power of two"
    /\ m_Writer.pos > 0
    /\ m_Reader.end > 0
    /\ m_WriterShared > 0
    /\ m_ReaderShared > 0

====
